---------------------------- MODULE Spec2Model ----------------------------
(***************************************************************************)
(* A model of the banking ledger of src/src/user.rs and of its driver      *)
(* src/src/main.rs: users with deposited/withdrawn totals, one treasury    *)
(* with the aggregate sums, and the operations deposit, withdraw, their    *)
(* fee-adjusted variants, borrow and apply_interest.                       *)
(*                                                                         *)
(* Integers.  The balances are u32 in the source.  TLC's integers are      *)
(* 32-bit signed, so the unsigned width is modelled at Bits bits: every    *)
(* field ranges over 0..MAX with MAX = 2^Bits - 1, checked_* operations    *)
(* fail above MAX, saturating_mul clamps to MAX, and the plain operators   *)
(* +, -, * either panic (overflow-checks on, the dev profile) or wrap      *)
(* modulo 2^Bits (overflow-checks off, the release profile).  Bits is      *)
(* large enough for the driver's scenario (1000 * 400 fits).               *)
(*                                                                         *)
(* Panics.  A panic ends the process; the state at that point is kept      *)
(* as the code left it and no operation runs after it.                     *)
(***************************************************************************)
EXTENDS Integers, Sequences, FiniteSets, TLC

VARIABLES
    users,            \* id -> User (user.rs:4-11)
    treasury,         \* Treasury (user.rs:14-17)
    overflow_checks,  \* build profile: TRUE = plain arithmetic panics, FALSE = wraps
    pre,              \* history: users and treasury before the last call
    last,             \* history: the last call, its arguments and its result
    nops              \* number of calls made so far

vars == <<users, treasury, overflow_checks, pre, last, nops>>

---------------------------------------------------------------------------
(* Widths and program constants *)

Bits == 20
MAX == 2^Bits - 1
Modulus == MAX + 1

MAX_BPS == 10000
ENTRY_FEE_BPS == 200
EXIT_FEE_BPS == 400
BORROW_PERCENTAGE == 10

\* The two users the driver constructs: Alice (id 1) and Bob (id 2).
Users == {1, 2}
Name(u) == IF u = 1 THEN "Alice" ELSE "Bob"

\* User { id, name, ..Default::default() }
NewUser(u) ==
    [id |-> u, name |-> Name(u), total_deposited |-> 0, total_withdrawn |-> 0,
     has_deposited |-> FALSE, borrowable |-> FALSE]

\* Treasury::default()
NewTreasury == [sum_deposited |-> 0, sum_withdrawn |-> 0]

---------------------------------------------------------------------------
(* u32 arithmetic *)

\* a.saturating_mul(b), computed without forming a product above MAX
saturating_mul(a, b) ==
    IF a = 0 \/ b = 0 THEN 0
    ELSE IF a > MAX \div b THEN MAX
    ELSE a * b

\* the value a wrapping (release) operation leaves
Wrap(x) == x % Modulus

---------------------------------------------------------------------------
(* Results of a call: the users and treasury it leaves, how it ended       *)
(* ("Ok", "Err", "unit" for a call returning (), "panic"), the value       *)
(* carried by Ok (or the maximum named by the limit error) and the         *)
(* message of an Err or a panic.                                           *)

Out(us, tr, ret, val, msg) ==
    [users |-> us, treasury |-> tr, ret |-> ret, val |-> val, msg |-> msg]

---------------------------------------------------------------------------
(* impl User *)

\* deposit that forgets to credit the treasury
deposit_forgets_treasury(us, tr, u, amount, is_borrowable) ==
    IF us[u].total_deposited + amount > MAX
    THEN Out(us, tr, "panic", 0, "deposit overflow")
    ELSE Out([us EXCEPT ![u].total_deposited = @ + amount,
                        ![u].has_deposited = TRUE,
                        ![u].borrowable = is_borrowable], tr, "unit", 0, "")

\* deposit that leaves has_deposited as it was
deposit_forgets_flag(us, tr, u, amount, is_borrowable) ==
    IF us[u].total_deposited + amount > MAX
    THEN Out(us, tr, "panic", 0, "deposit overflow")
    ELSE LET us1 == [us EXCEPT ![u].total_deposited = @ + amount,
                               ![u].borrowable = is_borrowable]
         IN  IF tr.sum_deposited + amount > MAX
             THEN Out(us1, tr, "panic", 0, "treasury deposit overflow")
             ELSE Out(us1, [tr EXCEPT !.sum_deposited = @ + amount], "unit", 0, "")

\* user.rs:21-32.  checked_add(..).expect(..) panics on overflow; the first
\* panic leaves everything as it was, the second leaves the user credited.
deposit(us, tr, u, amount, is_borrowable) ==
    IF us[u].total_deposited + amount > MAX
    THEN Out(us, tr, "panic", 0, "deposit overflow")
    ELSE LET us1 == [us EXCEPT ![u].total_deposited = @ + amount,
                               ![u].has_deposited = TRUE,
                               ![u].borrowable = is_borrowable]
         IN  IF tr.sum_deposited + amount > MAX
             THEN Out(us1, tr, "panic", 0, "treasury deposit overflow")
             ELSE Out(us1, [tr EXCEPT !.sum_deposited = @ + amount], "unit", 0, "")

\* user.rs:40, the guard of withdraw: total_withdrawn + amount is a plain
\* addition, so the sum compared is the wrapped one when it overflows.
withdraw_guard(user, amount) ==
    Wrap(user.total_withdrawn + amount) <= user.total_deposited

\* withdraw with total_withdrawn += amount as a plain addition
withdraw_plain_counter(us, tr, u, amount, oc) ==
    IF oc /\ us[u].total_withdrawn + amount > MAX
    THEN Out(us, tr, "panic", 0, "attempt to add with overflow")
    ELSE IF ~withdraw_guard(us[u], amount)
    THEN Out(us, tr, "Err", 0, "Something Went Wrong")
    ELSE IF oc /\ amount > us[u].total_deposited
    THEN Out(us, tr, "panic", 0, "attempt to subtract with overflow")
    ELSE LET us2 == [us EXCEPT ![u].total_deposited = Wrap(@ - amount),
                               ![u].total_withdrawn = Wrap(@ + amount)]
         IN  IF oc /\ amount > tr.sum_deposited
             THEN Out(us2, tr, "panic", 0, "attempt to subtract with overflow")
             ELSE LET tr1 == [tr EXCEPT !.sum_deposited = Wrap(@ - amount)]
                  IN  IF tr.sum_withdrawn + amount > MAX
                      THEN Out(us2, tr1, "panic", 0, "treasury withdrawal overflow")
                      ELSE Out(us2, [tr1 EXCEPT !.sum_withdrawn = @ + amount],
                               "Ok", us2[u].total_withdrawn, "")

\* withdraw that does not record the withdrawal in the treasury
withdraw_forgets_sum_withdrawn(us, tr, u, amount, oc) ==
    IF oc /\ us[u].total_withdrawn + amount > MAX
    THEN Out(us, tr, "panic", 0, "attempt to add with overflow")
    ELSE IF ~withdraw_guard(us[u], amount)
    THEN Out(us, tr, "Err", 0, "Something Went Wrong")
    ELSE IF oc /\ amount > us[u].total_deposited
    THEN Out(us, tr, "panic", 0, "attempt to subtract with overflow")
    ELSE LET us1 == [us EXCEPT ![u].total_deposited = Wrap(@ - amount)]
         IN  IF us[u].total_withdrawn + amount > MAX
             THEN Out(us1, tr, "panic", 0, "withdraw overflow")
             ELSE LET us2 == [us1 EXCEPT ![u].total_withdrawn = @ + amount]
                  IN  IF oc /\ amount > tr.sum_deposited
                      THEN Out(us2, tr, "panic", 0, "attempt to subtract with overflow")
                      ELSE Out(us2, [tr EXCEPT !.sum_deposited = Wrap(@ - amount)],
                               "Ok", us2[u].total_withdrawn, "")

\* user.rs:35-57.  The plain +, -= panic under overflow-checks and wrap
\* otherwise; the checked_add(..).expect(..) panic in both profiles.
withdraw(us, tr, u, amount, oc) ==
    IF oc /\ us[u].total_withdrawn + amount > MAX
    THEN Out(us, tr, "panic", 0, "attempt to add with overflow")
    ELSE IF ~withdraw_guard(us[u], amount)
    THEN Out(us, tr, "Err", 0, "Something Went Wrong")
    ELSE IF oc /\ amount > us[u].total_deposited
    THEN Out(us, tr, "panic", 0, "attempt to subtract with overflow")
    ELSE LET us1 == [us EXCEPT ![u].total_deposited = Wrap(@ - amount)]
         IN  IF us[u].total_withdrawn + amount > MAX
             THEN Out(us1, tr, "panic", 0, "withdraw overflow")
             ELSE LET us2 == [us1 EXCEPT ![u].total_withdrawn = @ + amount]
                  IN  IF oc /\ amount > tr.sum_deposited
                      THEN Out(us2, tr, "panic", 0, "attempt to subtract with overflow")
                      ELSE LET tr1 == [tr EXCEPT !.sum_deposited = Wrap(@ - amount)]
                           IN  IF tr.sum_withdrawn + amount > MAX
                               THEN Out(us2, tr1, "panic", 0, "treasury withdrawal overflow")
                               ELSE Out(us2, [tr1 EXCEPT !.sum_withdrawn = @ + amount],
                                        "Ok", us2[u].total_withdrawn, "")

\* user.rs:60-64
calculate_entry_fee(amount) == saturating_mul(amount, ENTRY_FEE_BPS) \div MAX_BPS

\* user.rs:67-71
calculate_exit_fee(amount) == saturating_mul(amount, EXIT_FEE_BPS) \div MAX_BPS

\* user.rs:75-81
deposit_with_fee(us, tr, u, amount, is_borrowable) ==
    LET fee == calculate_entry_fee(amount)
    IN  IF fee > amount
        THEN Out(us, tr, "panic", 0, "Fee exceeds deposit amount")
        ELSE deposit(us, tr, u, amount - fee, is_borrowable)

\* withdraw_with_fee that withdraws the requested amount without the fee
withdraw_with_fee_drops_fee(us, tr, u, amount, oc) ==
    LET fee == calculate_exit_fee(amount)
    IN  IF amount + fee > MAX
        THEN Out(us, tr, "Err", 0, "Withdrawal fee calculation error")
        ELSE withdraw(us, tr, u, amount, oc)

\* user.rs:85-90
withdraw_with_fee(us, tr, u, amount, oc) ==
    LET fee == calculate_exit_fee(amount)
    IN  IF amount + fee > MAX
        THEN Out(us, tr, "Err", 0, "Withdrawal fee calculation error")
        ELSE withdraw(us, tr, u, amount + fee, oc)

\* a borrow that never looks at the lender's flag
borrowing_always_enabled(lender) == TRUE

\* user.rs:98, the first check of borrow
borrowing_enabled(lender) == lender.borrowable

\* a limit of 100% of the lender's deposit instead of 10%
max_borrowable_whole(lender) == lender.total_deposited

\* a limit computed without the division by 100
max_borrowable_undivided(lender) == Wrap(lender.total_deposited * BORROW_PERCENTAGE)

\* user.rs:103, (lender.total_deposited * BORROW_PERCENTAGE) / 100 where the
\* product has not overflowed, and with the wrapped product where it has
max_borrowable(lender) == Wrap(lender.total_deposited * BORROW_PERCENTAGE) \div 100

\* user.rs:105, the limit check of borrow
exceeds_limit(amount, limit) == amount > limit

\* a transfer that also takes the amount out of the treasury
borrow_transfer_debits_treasury(us, tr, b, l, amount) ==
    IF us[l].total_deposited < amount
    THEN Out(us, tr, "Err", 0, "Arithmetic overflow")
    ELSE LET us1 == [us EXCEPT ![l].total_deposited = @ - amount]
         IN  IF us1[b].total_deposited + amount > MAX
             THEN Out(us1, tr, "Err", 0, "Arithmetic overflow")
             ELSE Out([us1 EXCEPT ![b].total_deposited = @ + amount],
                      [tr EXCEPT !.sum_deposited = IF @ >= amount THEN @ - amount ELSE 0],
                      "Ok", amount, "")

\* user.rs:117-126, the balance update of borrow: checked_sub on the lender,
\* then checked_add on the borrower, each returning Err through `?`.
borrow_transfer(us, tr, b, l, amount) ==
    IF us[l].total_deposited < amount
    THEN Out(us, tr, "Err", 0, "Arithmetic overflow")
    ELSE LET us1 == [us EXCEPT ![l].total_deposited = @ - amount]
         IN  IF us1[b].total_deposited + amount > MAX
             THEN Out(us1, tr, "Err", 0, "Arithmetic overflow")
             ELSE Out([us1 EXCEPT ![b].total_deposited = @ + amount], tr, "Ok", amount, "")

\* user.rs:95-127.  b is self (the borrower), l the lender; the two are
\* distinct objects (two live &mut User).
borrow(us, tr, b, l, amount, oc) ==
    IF ~borrowing_enabled(us[l])
    THEN Out(us, tr, "Err", 0, "Lender has not enabled borrowing")
    ELSE IF oc /\ us[l].total_deposited * BORROW_PERCENTAGE > MAX
    THEN Out(us, tr, "panic", 0, "attempt to multiply with overflow")
    ELSE IF exceeds_limit(amount, max_borrowable(us[l]))
    THEN Out(us, tr, "Err", max_borrowable(us[l]),
             "Cannot borrow more than 10% of lender's deposit")
    ELSE IF us[l].total_deposited < amount
    THEN Out(us, tr, "Err", 0, "Insufficient funds in lender's account")
    ELSE borrow_transfer(us, tr, b, l, amount)

---------------------------------------------------------------------------
(* impl Treasury *)

\* an interest rate that only requires deposits, and divides by 1 where
\* nothing has been withdrawn
calculate_interest_rate_ignores_withdrawn(tr, user) ==
    IF tr.sum_deposited > 0
    THEN <<TRUE, saturating_mul(tr.sum_deposited, user.total_deposited)
                   \div (IF tr.sum_withdrawn = 0 THEN 1 ELSE tr.sum_withdrawn)>>
    ELSE <<FALSE, 0>>

\* user.rs:147-153; Ok(interest) is <<TRUE, interest>>, Err is <<FALSE, 0>>
calculate_interest_rate(tr, user) ==
    IF tr.sum_deposited > 0 /\ tr.sum_withdrawn > 0
    THEN <<TRUE, saturating_mul(tr.sum_deposited, user.total_deposited) \div tr.sum_withdrawn>>
    ELSE <<FALSE, 0>>

\* an apply_interest that credits the user and not the treasury
apply_interest_forgets_treasury(us, tr, u) ==
    LET r == calculate_interest_rate(tr, us[u])
        interest == r[2]
    IN  IF ~r[1]
        THEN Out(us, tr, "Err", 0, "Invalid treasury state")
        ELSE IF us[u].total_deposited + interest > MAX
        THEN Out(us, tr, "Err", 0, "Arithmetic overflow when applying interest")
        ELSE Out([us EXCEPT ![u].total_deposited = @ + interest], tr, "Ok", interest, "")

\* user.rs:133-142.  The user's total is assigned before the treasury's
\* checked_add can return its error.
apply_interest(us, tr, u) ==
    LET r == calculate_interest_rate(tr, us[u])
        interest == r[2]
    IN  IF ~r[1]
        THEN Out(us, tr, "Err", 0, "Invalid treasury state")
        ELSE IF us[u].total_deposited + interest > MAX
        THEN Out(us, tr, "Err", 0, "Arithmetic overflow when applying interest")
        ELSE LET us1 == [us EXCEPT ![u].total_deposited = @ + interest]
             IN  IF tr.sum_deposited + interest > MAX
                 THEN Out(us1, tr, "Err", 0,
                          "Arithmetic overflow when applying interest to treasury")
                 ELSE Out(us1, [tr EXCEPT !.sum_deposited = @ + interest],
                          "Ok", interest, "")

---------------------------------------------------------------------------
(* The caller: any sequence of calls on the two users and the treasury *)

MaxOps == 4
Half == Modulus \div 2

\* amounts deposited and withdrawn: nothing, the driver's 1000, half the
\* range and the whole range
Amounts == {0, 1000, Half, MAX}

\* amounts borrowed: nothing, the driver's 100, the 98 its lender allows,
\* and amounts above them
BorrowAmounts == {0, 98, 100, 1000, Half}

Call(op, u, l, amount, flag) ==
    [op |-> op, user |-> u, lender |-> l, amount |-> amount, flag |-> flag]

NoCall == Call("none", 0, 0, 0, FALSE) @@ [ret |-> "none", val |-> 0, msg |-> ""]

\* One call: the state is replaced by what the call leaves and the history
\* variables record the call.
Do(call, out) ==
    /\ pre' = [users |-> users, treasury |-> treasury]
    /\ users' = out.users
    /\ treasury' = out.treasury
    /\ last' = call @@ [ret |-> out.ret, val |-> out.val, msg |-> out.msg]
    /\ nops' = nops + 1
    /\ UNCHANGED overflow_checks

Running == last.ret # "panic" /\ nops < MaxOps

Init ==
    /\ users = [u \in Users |-> NewUser(u)]
    /\ treasury = NewTreasury
    /\ overflow_checks \in BOOLEAN
    /\ pre = [users |-> users, treasury |-> treasury]
    /\ last = NoCall
    /\ nops = 0

Deposit ==
    \E u \in Users, amount \in Amounts, flag \in BOOLEAN :
        /\ Running
        /\ Do(Call("deposit", u, 0, amount, flag),
              deposit(users, treasury, u, amount, flag))

DepositWithFee ==
    \E u \in Users, amount \in Amounts, flag \in BOOLEAN :
        /\ Running
        /\ Do(Call("deposit_with_fee", u, 0, amount, flag),
              deposit_with_fee(users, treasury, u, amount, flag))

Withdraw ==
    \E u \in Users, amount \in Amounts :
        /\ Running
        /\ Do(Call("withdraw", u, 0, amount, FALSE),
              withdraw(users, treasury, u, amount, overflow_checks))

WithdrawWithFee ==
    \E u \in Users, amount \in Amounts :
        /\ Running
        /\ Do(Call("withdraw_with_fee", u, 0, amount, FALSE),
              withdraw_with_fee(users, treasury, u, amount, overflow_checks))

Borrow ==
    \E b \in Users, l \in Users, amount \in BorrowAmounts :
        /\ b # l
        /\ Running
        /\ Do(Call("borrow", b, l, amount, FALSE),
              borrow(users, treasury, b, l, amount, overflow_checks))

ApplyInterest ==
    \E u \in Users :
        /\ Running
        /\ Do(Call("apply_interest", u, 0, 0, FALSE),
              apply_interest(users, treasury, u))

Next ==
    \/ Deposit
    \/ DepositWithFee
    \/ Withdraw
    \/ WithdrawWithFee
    \/ Borrow
    \/ ApplyInterest

Spec == Init /\ [][Next]_vars

TypeOK ==
    /\ \A u \in Users :
          /\ users[u].total_deposited \in 0..MAX
          /\ users[u].total_withdrawn \in 0..MAX
          /\ users[u].has_deposited \in BOOLEAN
          /\ users[u].borrowable \in BOOLEAN
    /\ treasury.sum_deposited \in 0..MAX
    /\ treasury.sum_withdrawn \in 0..MAX

---------------------------------------------------------------------------
(* The fee functions on their own: each call records its argument and its  *)
(* result in `last`.                                                       *)

MaxSmallFeeAmount == 120
FeeAmounts == (0..MaxSmallFeeAmount) \cup {1000, 5242, 5243, 10000, Half, MAX - 1, MAX}

CalcEntryFee ==
    \E amount \in FeeAmounts :
        /\ last' = Call("calculate_entry_fee", 0, 0, amount, FALSE)
                     @@ [ret |-> "Ok", val |-> calculate_entry_fee(amount), msg |-> ""]
        /\ UNCHANGED <<users, treasury, overflow_checks, pre, nops>>

CalcExitFee ==
    \E amount \in FeeAmounts :
        /\ last' = Call("calculate_exit_fee", 0, 0, amount, FALSE)
                     @@ [ret |-> "Ok", val |-> calculate_exit_fee(amount), msg |-> ""]
        /\ UNCHANGED <<users, treasury, overflow_checks, pre, nops>>

NextFee ==
    \/ CalcEntryFee
    \/ CalcExitFee

SpecFee == Init /\ [][NextFee]_vars

---------------------------------------------------------------------------
(* The round trip: a fresh user deposits an amount with the entry fee and  *)
(* immediately withdraws, with the exit fee, the net amount credited.      *)

MaxSmallRoundTrip == 60
RoundTripAmounts == (0..MaxSmallRoundTrip) \cup {1000, Half, MAX}

RoundTripDeposit ==
    \E u \in Users, amount \in RoundTripAmounts, flag \in BOOLEAN :
        /\ nops = 0
        /\ Do(Call("deposit_with_fee", u, 0, amount, flag),
              deposit_with_fee(users, treasury, u, amount, flag))

RoundTripWithdraw ==
    /\ nops = 1
    /\ last.ret = "unit"
    /\ LET u == last.user
           net == users[u].total_deposited
       IN  Do(Call("withdraw_with_fee", u, 0, net, FALSE),
              withdraw_with_fee(users, treasury, u, net, overflow_checks))

NextRoundTrip ==
    \/ RoundTripDeposit
    \/ RoundTripWithdraw

SpecRoundTrip == Init /\ [][NextRoundTrip]_vars

---------------------------------------------------------------------------
(* The driver, main.rs: Alice deposits 1000 with the fee and enables       *)
(* borrowing, Bob tries to borrow from Alice, the treasury applies         *)
(* interest to Alice.  main borrows 100; the amount is an input here, so   *)
(* that the run with 98 (and every other amount up to MaxDriverBorrow) is  *)
(* a run of the driver too.                                                *)

Alice == 1
Bob == 2
MaxDriverBorrow == 120
DriverBorrowAmounts == 0..MaxDriverBorrow

\* main.rs:21
MainDeposit ==
    /\ nops = 0
    /\ Do(Call("deposit_with_fee", Alice, 0, 1000, TRUE),
          deposit_with_fee(users, treasury, Alice, 1000, TRUE))

\* main.rs:27-30; a panic ends main
MainBorrow ==
    \E amount \in DriverBorrowAmounts :
        /\ nops = 1
        /\ last.ret # "panic"
        /\ Do(Call("borrow", Bob, Alice, amount, FALSE),
              borrow(users, treasury, Bob, Alice, amount, overflow_checks))

\* main.rs:36-39
MainApplyInterest ==
    /\ nops = 2
    /\ last.ret # "panic"
    /\ Do(Call("apply_interest", Alice, 0, 0, FALSE),
          apply_interest(users, treasury, Alice))

NextMain ==
    \/ MainDeposit
    \/ MainBorrow
    \/ MainApplyInterest

SpecMain == Init /\ [][NextMain]_vars

---------------------------------------------------------------------------
(* Longer runs of the ledger operations alone (deposit, the two withdraws  *)
(* and apply_interest) with unit and half-range amounts: the runs in which *)
(* the treasury's sums and the users' totals drift apart.                  *)

MaxLedgerOps == 6
LedgerAmounts == {1, Half}

LedgerRunning == last.ret # "panic" /\ nops < MaxLedgerOps

LedgerDeposit ==
    \E u \in Users, amount \in LedgerAmounts, flag \in BOOLEAN :
        /\ LedgerRunning
        /\ Do(Call("deposit", u, 0, amount, flag),
              deposit(users, treasury, u, amount, flag))

LedgerWithdraw ==
    \E u \in Users, amount \in LedgerAmounts :
        /\ LedgerRunning
        /\ Do(Call("withdraw", u, 0, amount, FALSE),
              withdraw(users, treasury, u, amount, overflow_checks))

LedgerWithdrawWithFee ==
    \E u \in Users, amount \in LedgerAmounts :
        /\ LedgerRunning
        /\ Do(Call("withdraw_with_fee", u, 0, amount, FALSE),
              withdraw_with_fee(users, treasury, u, amount, overflow_checks))

LedgerApplyInterest ==
    \E u \in Users :
        /\ LedgerRunning
        /\ Do(Call("apply_interest", u, 0, 0, FALSE),
              apply_interest(users, treasury, u))

NextLedger ==
    \/ LedgerDeposit
    \/ LedgerWithdraw
    \/ LedgerWithdrawWithFee
    \/ LedgerApplyInterest

SpecLedger == Init /\ [][NextLedger]_vars

---------------------------------------------------------------------------
(* Properties *)

RECURSIVE SumOver(_, _)
SumOver(f, S) ==
    IF S = {} THEN 0
    ELSE LET x == CHOOSE y \in S : TRUE IN f[x] + SumOver(f, S \ {x})

SumDeposited(us) == SumOver([u \in Users |-> us[u].total_deposited], Users)

Returned == last.ret \in {"Ok", "Err", "unit"}

\* C1: after any sequence of calls that returned (with or without an
\* error), treasury.sum_deposited is the sum of the users' total_deposited.
C1_TreasuryMirrorsDeposits ==
    Returned => treasury.sum_deposited = SumDeposited(users)

\* C2: a call of withdraw, withdraw_with_fee, borrow or apply_interest that
\* returns Err leaves every field of every user and of the treasury as it
\* was before the call.
C2_ErrLeavesStateUnchanged ==
    (/\ last.op \in {"withdraw", "withdraw_with_fee", "borrow", "apply_interest"}
     /\ last.ret = "Err")
    => (users = pre.users /\ treasury = pre.treasury)

\* C3: withdraw(amount) returns Ok exactly when total_withdrawn + amount <=
\* total_deposited held before the call; then the user's total_deposited and
\* the treasury's sum_deposited are down by amount, total_withdrawn and
\* sum_withdrawn are up by amount and the value returned is the new
\* total_withdrawn; otherwise it returns the error of the guard.
C3_WithdrawContract ==
    last.op = "withdraw" =>
        LET u == last.user
            amount == last.amount
            before == pre.users[u]
            sufficient == before.total_withdrawn + amount <= before.total_deposited
        IN  /\ (last.ret = "Ok") <=> sufficient
            /\ last.ret = "Ok" =>
                  /\ users[u].total_deposited = before.total_deposited - amount
                  /\ users[u].total_withdrawn = before.total_withdrawn + amount
                  /\ treasury.sum_deposited = pre.treasury.sum_deposited - amount
                  /\ treasury.sum_withdrawn = pre.treasury.sum_withdrawn + amount
                  /\ last.val = users[u].total_withdrawn
            /\ ~sufficient =>
                  /\ last.ret = "Err"
                  /\ last.msg = "Something Went Wrong"

\* C4: in the round trip of a fresh user, deposit_with_fee(amount) and then
\* withdraw_with_fee of the net credited, no user's total_withdrawn exceeds
\* its total_deposited in any state, the final one included.
C4_WithdrawnNeverExceedsDeposited ==
    \A u \in Users : users[u].total_withdrawn <= users[u].total_deposited

\* C5: for every amount of the integer range, calculate_entry_fee(amount) is
\* floor(amount * 200 / 10000) and calculate_exit_fee(amount) is
\* floor(amount * 400 / 10000), the product being the mathematical one.
C5_FeesAreExact ==
    /\ last.op = "calculate_entry_fee" =>
          last.val = (last.amount * ENTRY_FEE_BPS) \div MAX_BPS
    /\ last.op = "calculate_exit_fee" =>
          last.val = (last.amount * EXIT_FEE_BPS) \div MAX_BPS

\* the amount a successful deposit call credits: the amount for deposit,
\* the amount less the entry fee for deposit_with_fee
Credited ==
    IF last.op = "deposit" THEN last.amount
    ELSE last.amount - calculate_entry_fee(last.amount)

\* C6: after a successful deposit or deposit_with_fee the treasury's
\* sum_deposited is up by exactly the amount credited to the user (980 for a
\* deposit_with_fee of 1000), has_deposited is true, borrowable is the
\* argument, and total_withdrawn and sum_withdrawn are as before.
C6_DepositCreditsTreasury ==
    (last.op \in {"deposit", "deposit_with_fee"} /\ last.ret = "unit") =>
        LET u == last.user
        IN  /\ users[u].total_deposited = pre.users[u].total_deposited + Credited
            /\ treasury.sum_deposited = pre.treasury.sum_deposited + Credited
            /\ (last.op = "deposit_with_fee" /\ last.amount = 1000) =>
                  treasury.sum_deposited - pre.treasury.sum_deposited = 980
            /\ users[u].has_deposited
            /\ users[u].borrowable = last.flag
            /\ users[u].total_withdrawn = pre.users[u].total_withdrawn
            /\ treasury.sum_withdrawn = pre.treasury.sum_withdrawn

\* a deposit_with_fee of 1000 on top of an earlier balance has returned
C6_Witness ==
    /\ last.op = "deposit_with_fee"
    /\ last.amount = 1000
    /\ last.ret = "unit"
    /\ pre.treasury.sum_deposited > 0
    /\ treasury.sum_deposited = pre.treasury.sum_deposited + 980

\* C7: borrow returns an error whenever the lender's borrowable flag is
\* false, whatever the amount and the balances, and changes neither user.
C7_BorrowNeedsBorrowable ==
    (last.op = "borrow" /\ ~pre.users[last.lender].borrowable) =>
        /\ last.ret = "Err"
        /\ users = pre.users

\* a borrow of 0 from a lender that holds a deposit but has not enabled
\* borrowing has been refused
C7_Witness ==
    /\ last.op = "borrow"
    /\ last.amount = 0
    /\ ~pre.users[last.lender].borrowable
    /\ pre.users[last.lender].total_deposited > 0
    /\ last.ret = "Err"

\* floor(total_deposited * 10 / 100) with the mathematical product
TrueLimit(lender) == (lender.total_deposited * BORROW_PERCENTAGE) \div 100

\* C8: borrow never succeeds with an amount above floor(lender.total_deposited
\* * 10 / 100), the product being the mathematical one, and then changes
\* neither user's balance.
C8_BorrowAboveLimitFails ==
    (last.op = "borrow" /\ last.amount > TrueLimit(pre.users[last.lender])) =>
        /\ last.ret # "Ok"
        /\ \A u \in Users : users[u].total_deposited = pre.users[u].total_deposited

\* a borrow above the limit has been refused where the lender had enabled
\* borrowing and the product total_deposited * 10 did not fit the width
C8_Witness ==
    /\ last.op = "borrow"
    /\ pre.users[last.lender].borrowable
    /\ pre.users[last.lender].total_deposited * BORROW_PERCENTAGE > MAX
    /\ last.amount > TrueLimit(pre.users[last.lender])
    /\ last.ret = "Err"

\* C9: if the lender has enabled borrowing, amount <= floor(lender.
\* total_deposited * 10 / 100) (mathematical product) and the borrower's
\* total_deposited + amount fits the width, borrow succeeds and returns amount.
C9_BorrowWithinLimitSucceeds ==
    (/\ last.op = "borrow"
     /\ pre.users[last.lender].borrowable
     /\ last.amount <= TrueLimit(pre.users[last.lender])
     /\ pre.users[last.user].total_deposited + last.amount <= MAX)
    => (last.ret = "Ok" /\ last.val = last.amount)

\* C10: a successful borrow takes exactly amount from the lender's
\* total_deposited and adds exactly amount to the borrower's, and leaves the
\* treasury and every other field of the users as they were.
C10_BorrowFrame ==
    (last.op = "borrow" /\ last.ret = "Ok") =>
        LET b == last.user
            l == last.lender
        IN  /\ users[l].total_deposited = pre.users[l].total_deposited - last.amount
            /\ users[b].total_deposited = pre.users[b].total_deposited + last.amount
            /\ users[l].total_deposited + users[b].total_deposited
                 = pre.users[l].total_deposited + pre.users[b].total_deposited
            /\ treasury = pre.treasury
            /\ \A u \in Users :
                  /\ users[u].total_withdrawn = pre.users[u].total_withdrawn
                  /\ users[u].has_deposited = pre.users[u].has_deposited
                  /\ users[u].borrowable = pre.users[u].borrowable
                  /\ users[u].id = pre.users[u].id
                  /\ users[u].name = pre.users[u].name

\* the borrow of 98 from a lender holding 980 has succeeded
C10_Witness ==
    /\ last.op = "borrow"
    /\ last.ret = "Ok"
    /\ last.amount = 98
    /\ pre.users[last.lender].total_deposited = 980
    /\ users[last.lender].total_deposited = 882
    /\ users[last.user].total_deposited = pre.users[last.user].total_deposited + 98

\* C11: apply_interest returns the "Invalid treasury state" error whenever
\* the treasury's sum_withdrawn is 0, whatever sum_deposited and the user's
\* balance are, and likewise whenever sum_deposited is 0; the user and the
\* treasury are left as they were.
C11_InterestNeedsWithdrawals ==
    (/\ last.op = "apply_interest"
     /\ (pre.treasury.sum_withdrawn = 0 \/ pre.treasury.sum_deposited = 0))
    => /\ last.ret = "Err"
       /\ last.msg = "Invalid treasury state"
       /\ users = pre.users
       /\ treasury = pre.treasury

\* apply_interest has been refused for a user holding a deposit while the
\* treasury held deposits and nothing had ever been withdrawn
C11_Witness ==
    /\ last.op = "apply_interest"
    /\ pre.treasury.sum_withdrawn = 0
    /\ pre.treasury.sum_deposited > 0
    /\ pre.users[last.user].total_deposited > 0
    /\ last.ret = "Err"
    /\ last.msg = "Invalid treasury state"

\* min(a * b, MAX) for a, b in 0..MAX, without forming a product above MAX
CappedProduct(a, b) ==
    IF b = 0 THEN 0
    ELSE IF a <= MAX \div b THEN a * b
    ELSE MAX

\* C12: with sum_deposited > 0 and sum_withdrawn > 0, a successful
\* apply_interest returns interest = floor(min(sum_deposited *
\* user.total_deposited, MAX) / sum_withdrawn) of the state before the call,
\* adds exactly that to the user's total_deposited and to sum_deposited, and
\* leaves sum_withdrawn and every other field of the users as they were.
C12_InterestApplied ==
    (last.op = "apply_interest" /\ last.ret = "Ok") =>
        LET u == last.user
            interest == CappedProduct(pre.treasury.sum_deposited,
                                      pre.users[u].total_deposited)
                          \div pre.treasury.sum_withdrawn
        IN  /\ pre.treasury.sum_deposited > 0
            /\ pre.treasury.sum_withdrawn > 0
            /\ last.val = interest
            /\ users = [pre.users EXCEPT ![u].total_deposited = @ + interest]
            /\ treasury = [pre.treasury EXCEPT !.sum_deposited = @ + interest]

\* apply_interest has succeeded with a positive interest
C12_Witness ==
    /\ last.op = "apply_interest"
    /\ last.ret = "Ok"
    /\ last.val > 0
    /\ users[last.user].total_deposited
         = pre.users[last.user].total_deposited + last.val
    /\ treasury.sum_deposited = pre.treasury.sum_deposited + last.val

\* C13: no call, whether it succeeds, returns an error or panics, lowers a
\* user's total_withdrawn or the treasury's sum_withdrawn (pre is the state
\* before the last call, so this speaks of every step of every run).
C13_WithdrawnCountersNeverDecrease ==
    /\ \A u \in Users : users[u].total_withdrawn >= pre.users[u].total_withdrawn
    /\ treasury.sum_withdrawn >= pre.treasury.sum_withdrawn

\* a user that had withdrawn before has withdrawn again
C13_Witness ==
    /\ last.op = "withdraw"
    /\ last.ret = "Ok"
    /\ last.amount > 0
    /\ pre.users[last.user].total_withdrawn > 0
    /\ users[last.user].total_withdrawn > pre.users[last.user].total_withdrawn
    /\ treasury.sum_withdrawn > pre.treasury.sum_withdrawn

DepositOf(u) == last.op \in {"deposit", "deposit_with_fee"} /\ last.user = u

\* C14: has_deposited is false for a new user, becomes true only through a
\* deposit or deposit_with_fee of that user, is true after such a call has
\* returned, and once true stays true after every later call.
C14_HasDepositedIsSticky ==
    \A u \in Users :
        /\ last.op = "none" => ~users[u].has_deposited
        /\ (users[u].has_deposited /\ ~pre.users[u].has_deposited) => DepositOf(u)
        /\ (DepositOf(u) /\ last.ret = "unit") => users[u].has_deposited
        /\ pre.users[u].has_deposited => users[u].has_deposited

\* a user that deposited and then lent to a borrower that never deposited:
\* the lender's flag is still true and the borrower's still false
C14_Witness ==
    /\ last.op = "borrow"
    /\ last.ret = "Ok"
    /\ last.amount > 0
    /\ users[last.lender].has_deposited
    /\ ~users[last.user].has_deposited

SumWithdrawn(us) == SumOver([u \in Users |-> us[u].total_withdrawn], Users)

\* C15: after every sequence of calls on the one treasury (each of which
\* returned), treasury.sum_withdrawn is the sum of the users' total_withdrawn.
C15_TreasuryMirrorsWithdrawals ==
    last.ret # "panic" => treasury.sum_withdrawn = SumWithdrawn(users)

\* both users have withdrawn and the treasury holds the sum of the two
C15_Witness ==
    /\ last.ret = "Ok"
    /\ last.op \in {"withdraw", "withdraw_with_fee"}
    /\ \A u \in Users : users[u].total_withdrawn > 0
    /\ treasury.sum_withdrawn = SumWithdrawn(users)

\* C16: in the driver's run Alice holds 980 and the treasury 980 / 0 after
\* the deposit; the borrow of 100 is refused with the limit error naming the
\* maximum 98 and changes nothing, while a borrow of 98 succeeds and leaves
\* Alice 882 and Bob 98; apply_interest is refused with the invalid-treasury-
\* state error and changes nothing, so the run that borrowed 100 ends with
\* Alice 980, Bob 0 and the treasury 980 / 0.
C16_DriverRun ==
    /\ nops = 1 =>
          /\ last.ret = "unit"
          /\ users[Alice].total_deposited = 980
          /\ users[Alice].borrowable
          /\ users[Bob].total_deposited = 0
          /\ treasury = [sum_deposited |-> 980, sum_withdrawn |-> 0]
    /\ (nops = 2 /\ last.amount = 100) =>
          /\ last.ret = "Err"
          /\ last.msg = "Cannot borrow more than 10% of lender's deposit"
          /\ last.val = 98
          /\ users[Alice].total_deposited = 980
          /\ users[Bob].total_deposited = 0
    /\ (nops = 2 /\ last.amount = 98) =>
          /\ last.ret = "Ok"
          /\ users[Alice].total_deposited = 882
          /\ users[Bob].total_deposited = 98
    /\ nops = 3 =>
          /\ last.ret = "Err"
          /\ last.msg = "Invalid treasury state"
          /\ users = pre.users
          /\ treasury = [sum_deposited |-> 980, sum_withdrawn |-> 0]
          /\ users[Alice].total_deposited + users[Bob].total_deposited = 980
          /\ users[Bob].total_deposited = 0 => users[Alice].total_deposited = 980

\* the driver has finished after a refused borrow: Alice 980, Bob 0
C16_Witness ==
    /\ nops = 3
    /\ last.op = "apply_interest"
    /\ last.ret = "Err"
    /\ users[Alice].total_deposited = 980
    /\ users[Bob].total_deposited = 0
    /\ users[Alice].total_withdrawn = 0
    /\ treasury = [sum_deposited |-> 980, sum_withdrawn |-> 0]

\* C17: withdraw_with_fee(amount) does what withdraw(amount +
\* calculate_exit_fee(amount)) does from the same state: the same users and
\* treasury are left and the same result is returned, and on success the
\* user is debited, and both withdrawn counters credited, by amount + fee;
\* when amount + fee does not fit the width it returns an error (it does not
\* panic) and leaves the users and the treasury as they were.
C17_WithdrawWithFeeIsWithdrawOfTotal ==
    last.op = "withdraw_with_fee" =>
        LET u == last.user
            total == last.amount + (CappedProduct(last.amount, EXIT_FEE_BPS) \div MAX_BPS)
            w == withdraw(pre.users, pre.treasury, u, total, overflow_checks)
        IN  IF total > MAX
            THEN /\ last.ret = "Err"
                 /\ last.msg = "Withdrawal fee calculation error"
                 /\ users = pre.users
                 /\ treasury = pre.treasury
            ELSE /\ users = w.users
                 /\ treasury = w.treasury
                 /\ last.ret = w.ret
                 /\ last.val = w.val
                 /\ last.msg = w.msg
                 /\ last.ret = "Ok" =>
                       /\ pre.users[u].total_withdrawn + total <= pre.users[u].total_deposited
                       /\ users[u].total_deposited = pre.users[u].total_deposited - total
                       /\ users[u].total_withdrawn = pre.users[u].total_withdrawn + total
                       /\ treasury.sum_withdrawn = pre.treasury.sum_withdrawn + total
                       /\ last.val = users[u].total_withdrawn

\* C17 as stated: withdraw_with_fee succeeds exactly when withdraw of amount +
\* fee would, on success debits the user's total_deposited and the treasury's
\* sum_deposited by amount + fee and returns what withdraw returns, and on
\* overflow of amount + fee returns an error with nothing changed.
C17_WithdrawWithFeeDebitsTotal ==
    /\ C17_WithdrawWithFeeIsWithdrawOfTotal
    /\ (last.op = "withdraw_with_fee" /\ last.ret = "Ok") =>
          LET total == last.amount + (CappedProduct(last.amount, EXIT_FEE_BPS) \div MAX_BPS)
          IN  /\ users[last.user].total_deposited
                   = pre.users[last.user].total_deposited - total
              /\ treasury.sum_deposited = pre.treasury.sum_deposited - total

\* C18: in every reachable state a withdraw of an amount that is at most the
\* user's current total_deposited succeeds.
C18_CanWithdrawRemainingBalance ==
    (last.op = "withdraw" /\ last.amount <= pre.users[last.user].total_deposited)
    => last.ret = "Ok"

\* C19: in borrow, whenever the borrowable check and the limit check have
\* passed, the lender's total_deposited is at least amount, whether the limit
\* came from the exact or from the wrapped product; so borrow never returns
\* "Insufficient funds in lender's account", nor the error of the lender's
\* checked_sub (an "Arithmetic overflow" with nothing changed).
C19_LimitImpliesSufficientFunds ==
    last.op = "borrow" =>
        LET lender == pre.users[last.lender]
            product == lender.total_deposited * BORROW_PERCENTAGE
            passed == /\ lender.borrowable
                      /\ ~(overflow_checks /\ product > MAX)
                      /\ last.amount <= (product % Modulus) \div 100
        IN  /\ passed => lender.total_deposited >= last.amount
            /\ last.msg # "Insufficient funds in lender's account"
            /\ ~(last.msg = "Arithmetic overflow" /\ users = pre.users)
            /\ passed => (last.ret = "Ok" \/ last.msg = "Arithmetic overflow")

\* a borrow has passed both checks with a limit that came from a wrapped
\* product, and has succeeded
C19_Witness ==
    /\ last.op = "borrow"
    /\ last.ret = "Ok"
    /\ last.amount > 0
    /\ pre.users[last.lender].total_deposited * BORROW_PERCENTAGE > MAX
    /\ pre.users[last.lender].total_deposited >= last.amount

\* the guard of withdraw passed in the last call: the comparison was reached
\* (no overflow panic in the addition) and was true of the sum as computed
GuardPassed ==
    /\ last.op = "withdraw"
    /\ ~(overflow_checks
         /\ pre.users[last.user].total_withdrawn + last.amount > MAX)
    /\ (pre.users[last.user].total_withdrawn + last.amount) % Modulus
         <= pre.users[last.user].total_deposited

\* C20: in every state reached by calls that returned, each user's
\* total_deposited is at most treasury.sum_deposited; and whenever the guard
\* of withdraw passes, amount <= the user's total_deposited and amount <=
\* sum_deposited, so the two subtractions of withdraw are exact.
C20_NoSubtractionWraps ==
    /\ last.ret # "panic" =>
          \A u \in Users : users[u].total_deposited <= treasury.sum_deposited
    /\ GuardPassed =>
          /\ last.amount <= pre.users[last.user].total_deposited
          /\ last.amount <= pre.treasury.sum_deposited
          /\ last.ret = "Ok" =>
                /\ users[last.user].total_deposited
                     = pre.users[last.user].total_deposited - last.amount
                /\ treasury.sum_deposited = pre.treasury.sum_deposited - last.amount

====
